---- MODULE Spec2Model ----
(***************************************************************************)
(* The conversational core of the Acme support bot:                        *)
(*   app/services/chat_service.py    one user turn (process_user_message)  *)
(*   app/services/history_manager.py background history compaction        *)
(*   app/utils/json_db.py            the order and session tables          *)
(*                                                                         *)
(* One session id is modelled.  The server is a single asyncio event loop: *)
(* a coroutine runs without interruption up to its next real suspension,   *)
(* and the only real suspensions are the three completion requests         *)
(* (_chat twice, summarize_messages once); the json_db helpers are         *)
(* "async def" bodies without an await in them.  Each action below is one  *)
(* such uninterrupted run.                                                 *)
(***************************************************************************)
EXTENDS Integers, Sequences, FiniteSets, TLC

VARIABLES
    aliasing,   \* whether load_history hands out the cached list itself
    heap,       \* the Python list objects holding histories, by object id
    rowRef,     \* the list the session row's "history" refers to; 0: no row
    orders,     \* the rows of orders_table, in insertion order
    uuids,      \* how many order ids uuid4() has produced
    turn,       \* process_user_message calls, by turn id
    trim,       \* the trim_history task each turn creates, by turn id
    response,   \* the HTTP response produced last, until the next request
    trimlog,    \* how the trim_history task that finished last ended, until
                \* the next task starts
    call        \* the tool call made last on the order table alone: its
                \* number, name, arguments and outcome

vars ==
    <<aliasing, heap, rowRef, orders, uuids, turn, trim, response, trimlog, call>>

(***************************************************************************)
(* Bounds of the model.                                                    *)
(***************************************************************************)
MaxTurns == 2

TurnIds == 1..MaxTurns

\* the row's list, one per turn or task in flight, one being created
ObjIds == 1..(MaxTurns + 2)

(***************************************************************************)
(* Program constants.                                                      *)
(***************************************************************************)
window == 5

chunk == 10

SYSTEM_PROMPT == "You are a friendly customer-support bot for Acme Corp."

\* Python's None where a text is expected
None == "<None>"

\* Python's None where a dict is expected
PyNone == [py_none |-> TRUE]

(***************************************************************************)
(* Python list helpers (indices are 0-based as in the source).             *)
(***************************************************************************)
Min(a, b) == IF a <= b THEN a ELSE b

\* s[a:b]
Slice(s, a, b) == SubSeq(s, a + 1, Min(b, Len(s)))

\* s[a:]
SliceFrom(s, a) == SubSeq(s, a + 1, Len(s))

\* s[i]
At(s, i) == s[i + 1]

Has(d, key) == key \in DOMAIN d

(***************************************************************************)
(* chat_service.py helpers.                                                *)
(***************************************************************************)
SystemMsg == [role |-> "system", content |-> SYSTEM_PROMPT]

\* a helper that leaves the history as it finds it
_keep_history(history) == history

\* a helper that inserts the prompt without looking at the first message
_prepend_system(history) == <<SystemMsg>> \o history

_ensure_system(history) ==
    IF history = <<>> \/ history[1].role # "system"
    THEN <<SystemMsg>> \o history
    ELSE history

UserMsg(text) == [role |-> "user", content |-> text]

AssistantMsg(text) == [role |-> "assistant", content |-> text]

\* tc.model_dump(exclude_none=True) of every requested call
AssistantToolCallMsg(content, tool_calls) ==
    [role |-> "assistant",
     content |-> IF content \in {None, ""} THEN "" ELSE content,
     tool_calls |-> tool_calls]

ToolMsg(tool_call, name, dumped) ==
    [role |-> "tool", tool_call_id |-> tool_call.id, name |-> name,
     content |-> dumped]

(***************************************************************************)
(* json_db.py: the order table.  A row is a dict; rows are kept in         *)
(* insertion order and nothing in the table enforces a key.                *)
(***************************************************************************)
Item(sku, qty, price) == [sku |-> sku, qty |-> qty, price |-> price]

demo_orders ==
    << [order_id |-> "1001", customer |-> "Ahmed Ali", status |-> "processing",
        total_price |-> 450,
        items |-> <<Item("SKU-TV-55-OLED", 1, 450)>>],
       [order_id |-> "1002", customer |-> "Sara Youssef", status |-> "shipped",
        total_price |-> 120,
        items |-> <<Item("SKU-HDMI-CABLE", 2, 20), Item("SKU-POWER-BANK", 1, 80)>>] >>

\* d1 | d2 : the keys of d2 win (dict.update)
Merge(d1, d2) ==
    [k \in DOMAIN d1 \cup DOMAIN d2 |-> IF k \in DOMAIN d2 THEN d2[k] ELSE d1[k]]

\* where("order_id") == order_id
HasId(row, order_id) == Has(row, "order_id") /\ row.order_id = order_id

\* str(uuid4())
Uuid(n) == "uuid-" \o ToString(n)

create_order(rows, n, order_data) ==
    LET data == IF Has(order_data, "order_id") THEN order_data
                ELSE Merge(order_data, [order_id |-> Uuid(n + 1)])
    IN  [orders |-> Append(rows, data), uuids |-> n + 1, result |-> data]

get_order(rows, order_id) ==
    LET hit == SelectSeq(rows, LAMBDA r : HasId(r, order_id))
    IN  IF hit = <<>> THEN PyNone ELSE Head(hit)

update_order(rows, order_id, updates) ==
    IF get_order(rows, order_id) = PyNone
    THEN [orders |-> rows, result |-> PyNone]
    ELSE LET new == [i \in DOMAIN rows |->
                        IF HasId(rows[i], order_id)
                        THEN Merge(rows[i], updates) ELSE rows[i]]
         IN  [orders |-> new, result |-> get_order(new, order_id)]

delete_order(rows, order_id) ==
    LET kept == SelectSeq(rows, LAMBDA r : ~HasId(r, order_id))
    IN  [orders |-> kept, result |-> Len(kept) < Len(rows)]

(***************************************************************************)
(* search_orders.  A filter value arrives from JSON as a number or a text: *)
(* [num |-> n] or [str |-> s].  In a row, total_price is a number, items a *)
(* list and every other field a text.                                      *)
(***************************************************************************)
Num(n) == [num |-> n]

Str(t) == [str |-> t]

FieldKind(row, field) ==
    IF ~Has(row, field) THEN "missing"
    ELSE IF field = "total_price" THEN "num"
    ELSE IF field = "items" THEN "list"
    ELSE IF row[field] = None THEN "null"
    ELSE "str"

ValueKind(val) == IF Has(val, "num") THEN "num" ELSE "str"

\* the order of Python's str comparison on the texts of the model
StrRank(t) ==
    CASE t = "1001" -> 1
      [] t = "1002" -> 2
      [] t = "9999" -> 3
      [] t = "Ahmed Ali" -> 4
      [] t = "Sara Youssef" -> 5
      [] t = "ship" -> 8
      [] t = "shipped" -> 9
      [] t = "processing" -> 7
      [] t = "cancelled" -> 6
      [] OTHER -> 10

\* re.search(needle, hay, flags=re.I) on the texts of the model
IContains(hay, needle) ==
    \/ hay = needle
    \/ needle = ""
    \/ /\ needle \in {"ship", "SHIP"}
       /\ hay = "shipped"

\* one clause of _build_query applied to one row: TRUE, FALSE or "TypeError"
Test(row, f) ==
    LET fk == FieldKind(row, f.field)
        vk == ValueKind(f.value)
        same == /\ fk = vk
                /\ IF fk = "num" THEN row[f.field] = f.value.num
                   ELSE row[f.field] = f.value.str
        \* str(val)
        needle == IF vk = "num" THEN ToString(f.value.num) ELSE f.value.str
    IN  IF fk \in {"missing", "null"}
        THEN IF fk = "null" /\ f.op = "!=" THEN "True" ELSE "False"
        ELSE CASE f.op = "==" -> IF same THEN "True" ELSE "False"
               [] f.op = "!=" -> IF same THEN "False" ELSE "True"
               [] f.op \in {">", "<"} ->
                    IF fk = "num" /\ vk = "num"
                    THEN IF (f.op = ">" /\ row[f.field] > f.value.num)
                            \/ (f.op = "<" /\ row[f.field] < f.value.num)
                         THEN "True" ELSE "False"
                    ELSE IF fk = "str" /\ vk = "str"
                    THEN IF (f.op = ">" /\ StrRank(row[f.field]) > StrRank(f.value.str))
                            \/ (f.op = "<" /\ StrRank(row[f.field]) < StrRank(f.value.str))
                         THEN "True" ELSE "False"
                    ELSE "TypeError"
               [] OTHER ->
                    IF fk = "str" /\ IContains(row[f.field], needle)
                    THEN "True" ELSE "False"

\* query = q1 & q2 & ... : evaluated left to right, stopping at the first False
RECURSIVE RowTest(_, _)
RowTest(row, filters) ==
    IF filters = <<>> THEN "True"
    ELSE LET first == Test(row, Head(filters))
         IN  IF first = "True" THEN RowTest(row, Tail(filters)) ELSE first

\* a search that keeps a row as soon as its first clause holds
search_first_clause(rows, filters) ==
    [exc |-> "",
     result |-> SelectSeq(rows, LAMBDA r :
                   filters = <<>> \/ Test(r, Head(filters)) = "True")]

search_orders(rows, filters) ==
    IF \E i \in DOMAIN filters : filters[i].op \notin {"==", "!=", ">", "<", "~"}
    THEN [exc |-> "ValueError", result |-> <<>>]
    ELSE IF \E i \in DOMAIN rows : RowTest(rows[i], filters) = "TypeError"
    THEN [exc |-> "TypeError", result |-> <<>>]
    ELSE [exc |-> "",
          result |-> SelectSeq(rows, LAMBDA r : RowTest(r, filters) = "True")]

(***************************************************************************)
(* chat_service.py: _run_tool.  The outcome is the exception that leaves   *)
(* the call ("" for none), the value returned and the order table after.   *)
(***************************************************************************)
Raise(exc, rows, n) ==
    [exc |-> exc, result |-> PyNone, orders |-> rows, uuids |-> n]

Return(result, rows, n) ==
    [exc |-> "", result |-> result, orders |-> rows, uuids |-> n]

\* a total that counts the items and forgets their quantities
SumPrices(items) ==
    IF items = <<>> THEN 0
    ELSE Head(items).price + (IF Len(items) > 1 THEN items[2].price ELSE 0)

RECURSIVE SumItems(_)
SumItems(items) ==
    IF items = <<>> THEN 0
    ELSE Head(items).qty * Head(items).price + SumItems(Tail(items))

\* the names of the tool catalog TOOLS
ToolNames ==
    {"get_order", "create_order", "update_order", "delete_order",
     "search_orders", "update_order_items"}

\* a dispatcher that answers an unknown name with an error result
UnknownToolAsResult(name, rows, n) == Return([error |-> "unknown_tool"], rows, n)

\* raise RuntimeError(f"Unknown function: {name}")
UnknownTool(name, rows, n) == Raise("RuntimeError", rows, n)

GetOrderTool(args, rows, n) ==
    IF ~Has(args, "order_id") THEN Raise("KeyError", rows, n)
    ELSE LET order == get_order(rows, args.order_id)
         IN  IF order = PyNone THEN Raise("ValueError", rows, n)
             ELSE Return([order |-> order], rows, n)

_run_tool(name, args, rows, n) ==
    CASE name = "get_order" -> GetOrderTool(args, rows, n)
      [] name = "create_order" ->
            LET r == create_order(rows, n, args)
            IN  Return(r.result, r.orders, r.uuids)
      [] name = "update_order" ->
            IF ~Has(args, "order_id") \/ ~Has(args, "fields")
            THEN Raise("KeyError", rows, n)
            ELSE LET r == update_order(rows, args.order_id, args.fields)
                 IN  Return(r.result, r.orders, n)
      [] name = "delete_order" ->
            IF ~Has(args, "order_id") THEN Raise("KeyError", rows, n)
            ELSE LET r == delete_order(rows, args.order_id)
                 IN  Return([deleted |-> r.result], r.orders, n)
      [] name = "search_orders" ->
            IF ~Has(args, "filters") THEN Raise("KeyError", rows, n)
            ELSE LET r == search_orders(rows, args.filters)
                 IN  IF r.exc # "" THEN Raise(r.exc, rows, n)
                     ELSE Return([results |-> r.result], rows, n)
      [] name = "update_order_items" ->
            IF ~Has(args, "order_id") THEN Raise("KeyError", rows, n)
            ELSE IF get_order(rows, args.order_id) = PyNone
            THEN Return([error |-> "not_found"], rows, n)
            ELSE IF ~Has(args, "items") THEN Raise("KeyError", rows, n)
            ELSE LET new_total == SumItems(args.items)
                     r == update_order(rows, args.order_id,
                                       [items |-> args.items, total_price |-> new_total])
                 IN  Return([order |-> r.result], r.orders, n)
      [] OTHER -> UnknownTool(name, rows, n)

(***************************************************************************)
(* JSON at the boundary.  json.dumps is an injective encoding;  json.loads *)
(* decodes the argument texts the completion provider sends in this model  *)
(* and raises JSONDecodeError on anything else.                            *)
(***************************************************************************)
JsonDumps(value) == IF value = PyNone THEN "null" ELSE ToString(value)

JsonLoads(text) ==
    CASE text = "{order_id: 1001}" -> [ok |-> TRUE, value |-> [order_id |-> "1001"]]
      [] text = "{order_id: 1002}" -> [ok |-> TRUE, value |-> [order_id |-> "1002"]]
      [] text = "{order_id: 9999}" -> [ok |-> TRUE, value |-> [order_id |-> "9999"]]
      [] OTHER -> [ok |-> FALSE, value |-> PyNone]

(***************************************************************************)
(* What the completion provider may answer.  A choice carries the finish   *)
(* reason, the text (None when absent) and the requested tool calls (the   *)
(* empty sequence stands for message.tool_calls = None).                   *)
(***************************************************************************)
Call(id, name, arguments) == [id |-> id, name |-> name, arguments |-> arguments]

TextChoice(content) ==
    [finish_reason |-> "stop", content |-> content, tool_calls |-> <<>>]

ToolChoice(tool_calls) ==
    [finish_reason |-> "tool_calls", content |-> None, tool_calls |-> tool_calls]

\* finish_reason "function_call": only message.function_call is set
LegacyChoice ==
    [finish_reason |-> "function_call", content |-> None, tool_calls |-> <<>>]

NoChoice == [finish_reason |-> "", content |-> None, tool_calls |-> <<>>]

FirstChoices ==
    { TextChoice("plain answer"),
      TextChoice(None),
      ToolChoice(<<Call("call_1", "get_order", "{order_id: 1001}")>>),
      ToolChoice(<<Call("call_1", "get_order", "{order_id: 9999}")>>),
      ToolChoice(<<Call("call_1", "get_order", "{order_id: 1001}"),
                   Call("call_2", "get_order", "{order_id: 1002}")>>),
      ToolChoice(<<Call("call_1", "get_order", "{order_id: 1001")>>),
      ToolChoice(<<Call("call_1", "delete_order", "{order_id: 1001}")>>),
      ToolChoice(<<Call("call_1", "refund_order", "{order_id: 1001}")>>),
      LegacyChoice }

FollowContents == {"final answer", None}

UserText(t) == "user message " \o ToString(t)

(***************************************************************************)
(* chat_service.py: _handle, up to its return or to the second completion  *)
(* request.  history is the list as _handle leaves it (it is mutated in    *)
(* place, so what was appended before an exception stays appended).        *)
(***************************************************************************)
Handled(exc, history, rows, n, returned, reply) ==
    [exc |-> exc, history |-> history, orders |-> rows, uuids |-> n,
     returned |-> returned, reply |-> reply]

_handle(choice, history, rows, n) ==
    IF choice.finish_reason \notin {"function_call", "tool_calls"}
    THEN LET assistant == IF choice.content \in {None, ""}
                          THEN "(no content)" ELSE choice.content
         IN  Handled("", Append(history, AssistantMsg(assistant)), rows, n,
                     TRUE, assistant)
    ELSE IF choice.tool_calls = <<>>
    THEN \* iterating message.tool_calls, which is None
         Handled("TypeError", history, rows, n, FALSE, None)
    ELSE LET tool_call == choice.tool_calls[1]
             h1 == Append(history,
                          AssistantToolCallMsg(choice.content, choice.tool_calls))
             name == tool_call.name
             args == JsonLoads(tool_call.arguments)
         IN  IF ~args.ok THEN Handled("JSONDecodeError", h1, rows, n, FALSE, None)
             ELSE LET r == _run_tool(name, args.value, rows, n)
                  IN  IF r.exc # ""
                      THEN Handled(r.exc, h1, r.orders, r.uuids, FALSE, None)
                      ELSE Handled("",
                                   Append(h1, ToolMsg(tool_call, name,
                                                      JsonDumps(r.result))),
                                   r.orders, r.uuids, FALSE, None)

(***************************************************************************)
(* The session table behind CachingMiddleware.  load_history returns       *)
(* row["history"]: with aliasing the caller gets the cached list object,   *)
(* without it a copy.  save_history puts the caller's list into the row.   *)
(***************************************************************************)
Stored == IF rowRef = 0 THEN <<>> ELSE heap[rowRef]

Refs(rr, tu, tr) ==
    ({rr} \cup {tu[t].h : t \in TurnIds} \cup {tr[t].h : t \in TurnIds}) \ {0}

Fresh(live) ==
    CHOOSE o \in ObjIds \ live : \A p \in ObjIds \ live : o <= p

\* lists nothing refers to any more are gone
Collect(hp, live) == [o \in ObjIds |-> IF o \in live THEN hp[o] ELSE <<>>]

Live == Refs(rowRef, turn, trim)

load_history ==
    IF rowRef = 0 THEN [ref |-> Fresh(Live), history |-> <<>>]
    ELSE IF aliasing THEN [ref |-> rowRef, history |-> heap[rowRef]]
    ELSE [ref |-> Fresh(Live), history |-> heap[rowRef]]

\* the row's list after save_history(history), history being the list ref
SavedRef(ref) ==
    IF aliasing THEN ref
    ELSE IF rowRef # 0 THEN rowRef
    ELSE Fresh(Live \cup {ref})

(***************************************************************************)
(* history_manager.py: trim_history.                                       *)
(***************************************************************************)
\* a size check that is off by one
BelowThreshold(n) == n < window + chunk

\* len(...) <= window + chunk
AtMostThreshold(n) == n <= window + chunk

IsAnchor(m) ==
    \/ Has(m, "meta") /\ Has(m.meta, "summary_of")
    \/ m.role = "system"

\* index of the last summary or system message, 0 when there is none
FindAnchor(history) ==
    LET found == {i \in 0..(Len(history) - 1) : IsAnchor(At(history, i))}
    IN  IF found = {} THEN 0
        ELSE CHOOSE i \in found : \A j \in found : j <= i

RECURSIVE DropTrailingTools(_)
DropTrailingTools(old) ==
    IF old # <<>> /\ old[Len(old)].role = "tool"
    THEN DropTrailingTools(SubSeq(old, 1, Len(old) - 1))
    ELSE old

RECURSIVE DropTrailingCalls(_)
DropTrailingCalls(old) ==
    IF old # <<>> /\ old[Len(old)].role = "assistant" /\ Has(old[Len(old)], "tool_calls")
    THEN DropTrailingCalls(SubSeq(old, 1, Len(old) - 1))
    ELSE old

\* old = unsummarized[:chunk] after the two while loops
OldSpan(unsummarized) ==
    DropTrailingCalls(DropTrailingTools(Slice(unsummarized, 0, chunk)))

SummaryMsg(summary, old) ==
    [role |-> "assistant", content |-> summary, meta |-> [summary_of |-> old]]

new_history(history, last_idx, summary_msg, unsummarized) ==
    Slice(history, 0, last_idx + 1) \o <<summary_msg>> \o SliceFrom(unsummarized, chunk)

\* a handler that saves the history although the summary is missing
SaveOnSummarizeError == [save |-> TRUE, raised |-> ""]

\* except Exception: logged, return: nothing is saved, nothing is raised
OnSummarizeError == [save |-> FALSE, raised |-> ""]

\* "await trim_history(session_id)" in place of create_task
AwaitTrim(tr, t) == [tr EXCEPT ![t].pc = "scheduled", ![t].awaited = TRUE]

\* asyncio.create_task(trim_history(session_id)): queued, not awaited
schedule_trim(tr, t) == [tr EXCEPT ![t].pc = "scheduled", ![t].awaited = FALSE]

\* the locals of a process_user_message call; they are gone once it returned
NoTurn == [pc |-> "idle", h |-> 0, chats |-> <<>>]

\* the locals of a trim_history task; they are gone once it finished
NoTrim ==
    [pc |-> "none", awaited |-> FALSE, h |-> 0, last_idx |-> 0,
     unsummarized |-> <<>>, old |-> <<>>]

\* the end of a task: what it did and the exception that left it ("": none)
Ended(outcome, raised) == [outcome |-> outcome, raised |-> raised]

(***************************************************************************)
(* api/chat.py: chat_endpoint turns the reply into a ChatResponse and any  *)
(* exception into a 500 whose detail is the exception's text.              *)
(* ChatResponse.assistant_reply is a str: a reply of None is refused.      *)
(***************************************************************************)
NoResponse == [status |-> 0, body |-> ""]

ChatResponse(assistant_reply) ==
    IF assistant_reply = None
    THEN [status |-> 500, body |-> "ValidationError"]
    ELSE [status |-> 200, body |-> assistant_reply]

HTTPException(exc) == [status |-> 500, body |-> exc]

\* no tool call was made on the order table alone
NoCall == [n |-> 0, name |-> "", args |-> PyNone, exc |-> "", result |-> PyNone]

(***************************************************************************)
(* The state after start-up.  data/db.json survives restarts, so the       *)
(* session may be unknown or may hold a history that earlier turns and     *)
(* compactions of this program left there.  The order table holds the demo *)
(* orders.                                                                 *)
(***************************************************************************)
EarlierText(h) ==
    Append(Append(_ensure_system(h), UserMsg("earlier message")),
           AssistantMsg("earlier answer"))

EarlierTool(h) ==
    LET r == _handle(ToolChoice(<<Call("call_0", "get_order", "{order_id: 1002}")>>),
                     Append(_ensure_system(h), UserMsg("earlier message")),
                     demo_orders, 0)
    IN  Append(r.history, AssistantMsg("earlier answer"))

\* a turn whose first completion failed, its list being the cached one
EarlierAbort(h) == Append(_ensure_system(h), UserMsg("earlier message"))

EarlierCompaction(history) ==
    LET last_idx == FindAnchor(history)
        unsummarized == SliceFrom(history, last_idx + 1)
    IN  new_history(history, last_idx,
                    SummaryMsg("summary", OldSpan(unsummarized)), unsummarized)

RECURSIVE Earlier(_, _)
Earlier(h, blocks) ==
    IF blocks = <<>> THEN h
    ELSE Earlier(CASE Head(blocks) = "text" -> EarlierText(h)
                   [] Head(blocks) = "tool" -> EarlierTool(h)
                   [] Head(blocks) = "abort" -> EarlierAbort(h)
                   [] OTHER -> EarlierCompaction(h),
                 Tail(blocks))

Times(k, block) == [i \in 1..k |-> block]

\* a history written without a system message: 7 x (user, assistant)
LegacyHistory ==
    [i \in 1..14 |-> IF i % 2 = 1 THEN UserMsg("legacy message")
                                  ELSE AssistantMsg("legacy answer")]

EarlierHistories(al) ==
    { Earlier(<<>>, Times(6, "text")),
      Earlier(<<>>, Times(7, "text")),
      Earlier(<<>>, Times(4, "text") \o <<"tool", "text">>),
      Earlier(<<>>, Times(8, "text") \o <<"compaction">> \o Times(4, "text")),
      LegacyHistory }
    \cup IF al
         THEN { Earlier(<<>>, Times(3, "text") \o <<"abort", "tool", "text">>) }
         ELSE {}

Init ==
    /\ aliasing \in BOOLEAN
    /\ \/ /\ rowRef = 0
          /\ heap = [o \in ObjIds |-> <<>>]
       \/ /\ rowRef = 1
          /\ \E h \in EarlierHistories(aliasing) :
                heap = [o \in ObjIds |-> IF o = 1 THEN h ELSE <<>>]
    /\ orders = demo_orders
    /\ uuids = 0
    /\ turn = [t \in TurnIds |-> NoTurn]
    /\ trim = [t \in TurnIds |-> NoTrim]
    /\ response = NoResponse
    /\ trimlog = Ended("", "")
    /\ call = NoCall

(***************************************************************************)
(* process_user_message.                                                   *)
(***************************************************************************)
\* load_history, _ensure_system, append the user message, request the first
\* completion (tool_choice=auto)
TurnStart(t) ==
    /\ turn[t].pc = "idle"
    /\ \A s \in TurnIds : s < t => turn[s].pc # "idle"
    /\ LET ld == load_history
           history == Append(_ensure_system(ld.history), UserMsg(UserText(t)))
       IN  /\ heap' = [heap EXCEPT ![ld.ref] = history]
           /\ turn' = [turn EXCEPT ![t].pc = "chat1", ![t].h = ld.ref,
                                   ![t].chats = <<"auto">>]
    /\ response' = NoResponse
    /\ UNCHANGED <<aliasing, rowRef, orders, uuids, trim, trimlog, call>>

\* the exception leaves process_user_message; its list is dropped
Abort(t, hp, exc) ==
    /\ turn' = [turn EXCEPT ![t] = [NoTurn EXCEPT !.pc = "failed"]]
    /\ response' = HTTPException(exc)
    /\ heap' = Collect(hp, Refs(rowRef, turn', trim))
    /\ UNCHANGED <<aliasing, rowRef, trim, trimlog, call>>

\* save_history, schedule_trim, return reply
Finish(t, hp, reply) ==
    LET ref == turn[t].h
        row == SavedRef(ref)
        tr == schedule_trim(trim, t)
    IN  /\ rowRef' = row
        /\ trim' = tr
        /\ IF tr[t].awaited
           THEN /\ turn' = [turn EXCEPT ![t] = [NoTurn EXCEPT !.pc = "awaiting_trim"]]
                /\ UNCHANGED response
           ELSE /\ turn' = [turn EXCEPT ![t] = [NoTurn EXCEPT !.pc = "done"]]
                /\ response' = ChatResponse(reply)
        /\ heap' = Collect([hp EXCEPT ![row] = hp[ref]], Refs(row, turn', tr))
        /\ UNCHANGED <<aliasing, trimlog, call>>

\* the first completion request raises
TurnFirstFails(t) ==
    /\ turn[t].pc = "chat1"
    /\ Abort(t, heap, "UpstreamError")
    /\ UNCHANGED <<orders, uuids>>

\* the first completion arrives: _handle runs to its return, to an exception
\* or to the second completion request (tool_choice=none)
TurnFirstReply(t) ==
    /\ turn[t].pc = "chat1"
    /\ \E choice \in FirstChoices :
          LET r == _handle(choice, heap[turn[t].h], orders, uuids)
              hp == [heap EXCEPT ![turn[t].h] = r.history]
          IN  /\ orders' = r.orders
              /\ uuids' = r.uuids
              /\ IF r.exc # "" THEN Abort(t, hp, r.exc)
                 ELSE IF r.returned THEN Finish(t, hp, r.reply)
                 ELSE /\ heap' = hp
                      /\ turn' = [turn EXCEPT ![t].pc = "chat2",
                                              ![t].chats = Append(@, "none")]
                      /\ UNCHANGED <<aliasing, rowRef, trim, response, trimlog,
                                      call>>

\* the second completion request raises
TurnSecondFails(t) ==
    /\ turn[t].pc = "chat2"
    /\ Abort(t, heap, "UpstreamError")
    /\ UNCHANGED <<orders, uuids>>

\* the second completion arrives: its text is appended and returned
TurnSecondReply(t) ==
    /\ turn[t].pc = "chat2"
    /\ \E content \in FollowContents :
          Finish(t, [heap EXCEPT ![turn[t].h] = Append(@, AssistantMsg(content))],
                 content)
    /\ UNCHANGED <<orders, uuids>>

(***************************************************************************)
(* trim_history, run as a task of its own.                                 *)
(***************************************************************************)
\* a compaction that reads the stored history again before it builds the
\* list it saves
CompactedFromStore(history, last_idx, summary, old, unsummarized) ==
    new_history(Stored, last_idx, SummaryMsg(summary, old),
                SliceFrom(Stored, last_idx + 1))

\* summary_msg and new_history, built from the history loaded at the start
Compacted(history, last_idx, summary, old, unsummarized) ==
    new_history(history, last_idx, SummaryMsg(summary, old), unsummarized)

\* save_history(session_id, new_history) and return
TrimSave(t, ld_ref, history, last_idx, summary, old, unsummarized) ==
    LET new == Compacted(history, last_idx, summary, old, unsummarized)
        row == IF aliasing \/ rowRef = 0 THEN Fresh(Live \cup {ld_ref}) ELSE rowRef
    IN  /\ rowRef' = row
        /\ trim' = [trim EXCEPT ![t] = [NoTrim EXCEPT !.pc = "finished"]]
        /\ trimlog' = Ended("saved", "")
        /\ heap' = Collect([heap EXCEPT ![row] = new], Refs(row, turn, trim'))
        /\ UNCHANGED <<aliasing, orders, uuids, turn, response, call>>

\* the task starts: load, the two size checks, the span, the summarize request
TrimStart(t) ==
    /\ trim[t].pc = "scheduled"
    /\ LET ld == load_history
           history == ld.history
           last_idx == FindAnchor(history)
           unsummarized == SliceFrom(history, last_idx + 1)
           old == OldSpan(unsummarized)
       IN  IF AtMostThreshold(Len(history)) \/ AtMostThreshold(Len(unsummarized))
           THEN /\ trim' = [trim EXCEPT ![t] = [NoTrim EXCEPT !.pc = "finished"]]
                /\ trimlog' = Ended("skipped", "")
                /\ UNCHANGED <<aliasing, heap, rowRef, orders, uuids, turn,
                               response, call>>
           ELSE IF old = <<>>
           THEN \* summarize_messages returns "" without a request
                TrimSave(t, ld.ref, history, last_idx, "", old, unsummarized)
           ELSE /\ trim' = [trim EXCEPT ![t].pc = "summarizing",
                                        ![t].h = ld.ref,
                                        ![t].last_idx = last_idx,
                                        ![t].unsummarized = unsummarized,
                                        ![t].old = old]
                /\ heap' = [heap EXCEPT ![ld.ref] = history]
                /\ trimlog' = Ended("", "")
                /\ UNCHANGED <<aliasing, rowRef, orders, uuids, turn, response, call>>

\* the summary arrives
TrimSummaryReply(t) ==
    /\ trim[t].pc = "summarizing"
    /\ TrimSave(t, trim[t].h, heap[trim[t].h], trim[t].last_idx, "summary",
                trim[t].old, trim[t].unsummarized)

\* the summarize request raises
TrimSummaryFails(t) ==
    /\ trim[t].pc = "summarizing"
    /\ LET e == OnSummarizeError
       IN  IF e.save
           THEN TrimSave(t, trim[t].h, heap[trim[t].h], trim[t].last_idx, None,
                         trim[t].old, trim[t].unsummarized)
           ELSE /\ trim' = [trim EXCEPT ![t] = [NoTrim EXCEPT !.pc = "finished"]]
                /\ trimlog' = Ended("failed", e.raised)
                /\ heap' = Collect(heap, Refs(rowRef, turn, trim'))
                /\ UNCHANGED <<aliasing, rowRef, orders, uuids, turn, response, call>>

Next ==
    \E t \in TurnIds :
        \/ TurnStart(t)
        \/ TurnFirstFails(t)
        \/ TurnFirstReply(t)
        \/ TurnSecondFails(t)
        \/ TurnSecondReply(t)
        \/ TrimStart(t)
        \/ TrimSummaryReply(t)
        \/ TrimSummaryFails(t)

Spec == Init /\ [][Next]_vars

(***************************************************************************)
(* The order table alone: tool calls as _run_tool executes them, one after *)
(* another, with arguments the tool schemas of TOOLS allow.  No turn runs, *)
(* so the session side stays as it is after start-up.                      *)
(***************************************************************************)
MaxCalls == 3

OrderIds == {"1001", "1002", "9999"}

\* create_order arguments: an order_id that is taken, and none
CreateInputs ==
    { [order_id |-> "1001", customer |-> "Omar Said", status |-> "processing",
       total_price |-> 30, items |-> <<Item("SKU-HDMI-CABLE", 1, 30)>>],
      [customer |-> "Omar Said", status |-> None,
       total_price |-> 30, items |-> <<Item("SKU-HDMI-CABLE", 1, 30)>>] }

\* update_order "fields"
UpdateFields == { [status |-> "cancelled"], [order_id |-> "1002"] }

\* update_order_items "items"
ItemLists ==
    { <<>>,
      <<Item("SKU-HDMI-CABLE", 3, 20)>>,
      <<Item("SKU-TV-55-OLED", 1, 450), Item("SKU-POWER-BANK", 2, 80)>> }

Filter(field, op, value) == [field |-> field, op |-> op, value |-> value]

\* search_orders "filters"
FilterLists ==
    { <<>>,
      <<Filter("status", "==", Str("shipped"))>>,
      <<Filter("status", "==", Str("processing"))>>,
      <<Filter("customer", "!=", Str("Ahmed Ali"))>>,
      <<Filter("total_price", ">", Num(100))>>,
      <<Filter("total_price", ">", Num(100)), Filter("status", "==", Str("shipped"))>>,
      <<Filter("total_price", "<", Num(200)), Filter("status", "~", Str("SHIP"))>>,
      <<Filter("status", ">", Str("processing"))>>,
      <<Filter("status", ">", Num(5))>>,
      <<Filter("status", "==", Str("cancelled")), Filter("status", "<", Num(5))>>,
      <<Filter("note", "==", Str("ship"))>> }

OrderInit ==
    /\ aliasing = FALSE
    /\ rowRef = 0
    /\ heap = [o \in ObjIds |-> <<>>]
    /\ orders = demo_orders
    /\ uuids = 0
    /\ turn = [t \in TurnIds |-> NoTurn]
    /\ trim = [t \in TurnIds |-> NoTrim]
    /\ response = NoResponse
    /\ trimlog = Ended("", "")
    /\ call = NoCall

\* await _run_tool(name, args)
ToolCall(name, args) ==
    /\ LET r == _run_tool(name, args, orders, uuids)
       IN  /\ orders' = r.orders
           /\ uuids' = r.uuids
           /\ call' = [n |-> call.n + 1, name |-> name, args |-> args,
                       exc |-> r.exc, result |-> r.result]
    /\ UNCHANGED <<aliasing, heap, rowRef, turn, trim, response, trimlog>>

GetOrderCall ==
    /\ call.n < MaxCalls
    /\ \E id \in OrderIds :
          ToolCall("get_order", [order_id |-> id])

CreateOrderCall ==
    /\ call.n < MaxCalls
    /\ \E data \in CreateInputs :
          ToolCall("create_order", data)

UpdateOrderCall ==
    /\ call.n < MaxCalls
    /\ \E id \in OrderIds, fields \in UpdateFields :
          ToolCall("update_order", [order_id |-> id, fields |-> fields])

UpdateOrderItemsCall ==
    /\ call.n < MaxCalls
    /\ \E id \in OrderIds, items \in ItemLists :
          ToolCall("update_order_items", [order_id |-> id, items |-> items])

DeleteOrderCall ==
    /\ call.n < MaxCalls
    /\ \E id \in OrderIds :
          ToolCall("delete_order", [order_id |-> id])

SearchOrdersCall ==
    /\ call.n < MaxCalls
    /\ \E filters \in FilterLists :
          ToolCall("search_orders", [filters |-> filters])

OrderNext ==
    \/ GetOrderCall
    \/ CreateOrderCall
    \/ UpdateOrderCall
    \/ UpdateOrderItemsCall
    \/ DeleteOrderCall
    \/ SearchOrdersCall

OrderSpec == OrderInit /\ [][OrderNext]_vars

(***************************************************************************)
(* One client that waits: a request is sent only when no turn and no       *)
(* trim_history task is under way, and every summarize request succeeds.   *)
(***************************************************************************)
Quiet ==
    \A s \in TurnIds :
        /\ turn[s].pc \in {"idle", "done", "failed"}
        /\ trim[s].pc \in {"none", "finished"}

SeqTurnStart(t) ==
    /\ Quiet
    /\ TurnStart(t)

SeqNext ==
    \E t \in TurnIds :
        \/ SeqTurnStart(t)
        \/ TurnFirstFails(t)
        \/ TurnFirstReply(t)
        \/ TurnSecondFails(t)
        \/ TurnSecondReply(t)
        \/ TrimStart(t)
        \/ TrimSummaryReply(t)

SeqSpec == Init /\ [][SeqNext]_vars

(***************************************************************************)
(* Steps and shapes the properties speak about.                            *)
(***************************************************************************)
\* task t calls save_history in this step
TrimSaves(t) ==
    /\ trim[t].pc \in {"scheduled", "summarizing"}
    /\ trim'[t].pc = "finished"
    /\ trimlog'.outcome = "saved"

\* process_user_message t calls save_history in this step
TurnSaves(t) ==
    /\ turn[t].pc \in {"chat1", "chat2"}
    /\ turn'[t].pc \in {"done", "awaiting_trim"}

\* process_user_message t ends with an exception in this step
TurnAborts(t) ==
    /\ turn[t].pc \in {"chat1", "chat2"}
    /\ turn'[t].pc = "failed"

\* the history task t loaded, and its anchor index
TrimLoaded(t) ==
    IF trim[t].pc = "summarizing"
    THEN Slice(heap[trim[t].h], 0, trim[t].last_idx + 1) \o trim[t].unsummarized
    ELSE Stored

TrimAnchor(t) ==
    IF trim[t].pc = "summarizing" THEN trim[t].last_idx ELSE FindAnchor(Stored)

\* message i of h is a tool result answering a call of the message before it
Answered(h, i) ==
    /\ i > 1
    /\ h[i - 1].role = "assistant"
    /\ Has(h[i - 1], "tool_calls")
    /\ \E k \in DOMAIN h[i - 1].tool_calls :
          h[i - 1].tool_calls[k].id = h[i].tool_call_id

NoOrphanTool(h) ==
    \A i \in DOMAIN h : h[i].role = "tool" => Answered(h, i)

\* h with the summary message at 0-based index i replaced by what it summarizes
Expand(h, i) ==
    Slice(h, 0, i) \o At(h, i).meta.summary_of \o SliceFrom(h, i + 1)

(***************************************************************************)
(* C1.  Whenever trim_history saves, the history it saves has no tool      *)
(* message that does not directly follow the assistant message carrying    *)
(* its call.                                                               *)
(***************************************************************************)
C1_NoOrphanToolAfterCompaction ==
    [][\A t \in TurnIds : TrimSaves(t) => NoOrphanTool(Stored')]_vars

(***************************************************************************)
(* C2.  Whenever trim_history saves, the saved history is the loaded one   *)
(* with the span replaced by its summary: putting summary_of back in place *)
(* of the new summary message gives the loaded history again.              *)
(***************************************************************************)
C2_SpanReplacedBySummary ==
    [][\A t \in TurnIds :
          TrimSaves(t) => Expand(Stored', TrimAnchor(t) + 1) = TrimLoaded(t)]_vars

(***************************************************************************)
(* C3.  A tool call whose arguments are not valid JSON never ends the turn *)
(* with the parse failure: no response is the 500 of a JSONDecodeError.    *)
(***************************************************************************)
C3_MalformedArgumentsAreCaught == response # HTTPException("JSONDecodeError")

(***************************************************************************)
(* C4.  get_order for an id that is not in the order table never fails the *)
(* turn: no response is the 500 of the ValueError "Order not found".       *)
(***************************************************************************)
C4_MissingOrderDoesNotFailTurn == response # HTTPException("ValueError")

(***************************************************************************)
(* C5.  In every history process_user_message saves, each assistant        *)
(* message with recorded tool calls is directly followed by one tool       *)
(* message per recorded call, with the ids of the calls in order.          *)
(***************************************************************************)
CallsAnswered(h) ==
    \A i \in DOMAIN h :
        (h[i].role = "assistant" /\ Has(h[i], "tool_calls")) =>
            \A k \in DOMAIN h[i].tool_calls :
                /\ i + k <= Len(h)
                /\ h[i + k].role = "tool"
                /\ h[i + k].tool_call_id = h[i].tool_calls[k].id

C5_EveryRecordedCallIsAnswered ==
    [][\A t \in TurnIds : TurnSaves(t) => CallsAnswered(Stored')]_vars

(***************************************************************************)
(* C6.  A compaction saves only what it loaded: every message of the       *)
(* history it saves is its new summary or a message of the history it      *)
(* loaded, whatever was stored in between.  So the messages of a turn that *)
(* loaded, appended and saved between the compaction's load and its save   *)
(* are gone from the stored history (the witness).                         *)
(***************************************************************************)
Elements(h) == {h[i] : i \in DOMAIN h}

C6_CompactionSavesOnlyWhatItLoaded ==
    [][\A t \in TurnIds :
          TrimSaves(t) =>
              \A i \in DOMAIN Stored' :
                  \/ i = TrimAnchor(t) + 2
                  \/ Stored'[i] \in Elements(TrimLoaded(t))]_vars

\* text is the content of a message of h or of a span summarized in h
Mentions(h, text) ==
    \E i \in DOMAIN h :
        \/ h[i].content = text
        \/ /\ Has(h[i], "meta")
           /\ \E j \in DOMAIN h[i].meta.summary_of :
                 h[i].meta.summary_of[j].content = text

\* Turn 2 returned its reply, its own compaction has not started, the
\* compaction of turn 1 saved last, and the user message of turn 2 is not in
\* the stored history.  Both turns used the cached list, so only a list made
\* before turn 2 appended to it can lack that message.
C6_TurnLostToCompaction ==
    /\ aliasing
    /\ turn[2].pc = "done"
    /\ response.status = 200
    /\ trim[1].pc = "finished"
    /\ trim[2].pc = "scheduled"
    /\ trimlog.outcome = "saved"
    /\ Mentions(Stored, UserText(1))
    /\ ~Mentions(Stored, UserText(2))

(***************************************************************************)
(* C7.  The step that schedules the compaction of a turn is the step in    *)
(* which that turn returns its reply, and no step of a compaction changes  *)
(* a response or a turn.                                                   *)
(***************************************************************************)
C7_TurnNeverWaitsForCompaction ==
    [][\A t \in TurnIds :
          /\ (trim[t].pc = "none" /\ trim'[t].pc # "none") =>
                /\ turn'[t].pc = "done"
                /\ response' # NoResponse
                /\ trim'[t].pc = "scheduled"
          /\ (trim[t].pc # "none" /\ trim'[t] # trim[t]) =>
                /\ response' = response
                /\ turn' = turn]_vars

\* the reply of turn 1 is out while its compaction waits for the summary
C7_ReplyBeforeCompactionEnds ==
    /\ turn[1].pc = "done"
    /\ turn[2].pc = "idle"
    /\ response.status = 200
    /\ trim[1].pc = "summarizing"

(***************************************************************************)
(* C8.  When the summarize request fails, the task ends without saving:    *)
(* neither the step that loads the history and sends the request nor the   *)
(* step that takes the failure changes the session row or its history, and *)
(* no exception leaves the task.                                           *)
(***************************************************************************)
C8_FailedSummaryLeavesHistory ==
    [][\A t \in TurnIds :
          /\ (trim[t].pc = "scheduled" /\ trim'[t].pc = "summarizing") =>
                /\ rowRef' = rowRef
                /\ Stored' = Stored
          /\ TrimSummaryFails(t) =>
                /\ rowRef' = rowRef
                /\ Stored' = Stored
                /\ trimlog'.outcome = "failed"
                /\ trimlog'.raised = ""]_vars

AfterAnchor(h) == SliceFrom(h, FindAnchor(h) + 1)

\* a compaction failed and the history is still over the threshold
C8_FailedCompactionSeen ==
    /\ trimlog = Ended("failed", "")
    /\ Len(AfterAnchor(Stored)) > 15

(***************************************************************************)
(* C9.  A starting compaction that finds at most 15 messages in the        *)
(* history, or at most 15 after the anchor, ends at once and leaves the    *)
(* stored history as it is; one that finds 16 or more after the anchor     *)
(* goes on to summarize.                                                   *)
(***************************************************************************)
C9_CompactionThreshold ==
    [][\A t \in TurnIds :
          (trim[t].pc = "scheduled" /\ trim'[t].pc # "scheduled") =>
              /\ (Len(Stored) <= 15 \/ Len(AfterAnchor(Stored)) <= 15) =>
                    /\ trim'[t].pc = "finished"
                    /\ trimlog' = Ended("skipped", "")
                    /\ rowRef' = rowRef
                    /\ Stored' = Stored
              /\ Len(AfterAnchor(Stored)) >= 16 =>
                    \/ trim'[t].pc = "summarizing"
                    \/ trimlog'.outcome = "saved"]_vars

\* the compaction of turn 1 was skipped at exactly 15 messages after the
\* anchor, and nothing has touched the history since
C9_SkippedAtFifteen ==
    /\ turn[1].pc = "done"
    /\ turn[2].pc = "idle"
    /\ trim[1].pc = "finished"
    /\ trimlog = Ended("skipped", "")
    /\ Len(AfterAnchor(Stored)) = 15

(***************************************************************************)
(* C10.  A request for a tool that is not in the catalog ends the turn     *)
(* with the RuntimeError: no list ever holds a tool message for such a     *)
(* name, and the failing step comes straight after the first completion,   *)
(* answers 500, saves nothing and schedules no compaction.                 *)
(***************************************************************************)
NoUnknownToolMessage ==
    \A o \in ObjIds : \A i \in DOMAIN heap[o] :
        heap[o][i].role = "tool" => heap[o][i].name \in ToolNames

C10_UnknownToolAbortsTurn ==
    /\ []NoUnknownToolMessage
    /\ [][\A t \in TurnIds :
             (TurnAborts(t) /\ response'.body = "RuntimeError") =>
                 /\ turn[t].pc = "chat1"
                 /\ response'.status = 500
                 /\ rowRef' = rowRef
                 /\ (~aliasing => Stored' = Stored)
                 /\ trim' = trim]_vars

\* the first turn of an unknown session asked for an unknown tool
C10_UnknownToolSeen ==
    /\ response = HTTPException("RuntimeError")
    /\ turn[1].pc = "failed"
    /\ turn[2].pc = "idle"
    /\ trim[1].pc = "none"
    /\ rowRef = 0

(***************************************************************************)
(* Tool calls on the order table (OrderSpec).                              *)
(***************************************************************************)
\* this step is a call of the tool name
Calls(name) == call'.n = call.n + 1 /\ call'.name = name

RowsWithId(rows, id) == {i \in DOMAIN rows : rows[i].order_id = id}

\* rows without the row at index i
Without(rows, i) == SubSeq(rows, 1, i - 1) \o SubSeq(rows, i + 1, Len(rows))

(***************************************************************************)
(* C11.  No two rows of the order table have the same order_id.            *)
(***************************************************************************)
C11_OrderIdsUnique ==
    \A i, j \in DOMAIN orders : i # j => orders[i].order_id # orders[j].order_id

(***************************************************************************)
(* C12.  update_order_items on an id the table holds returns without an    *)
(* exception, gives every row with that id the items of the call and the   *)
(* total qty*price over those items, and leaves their other fields, the    *)
(* rows with other ids and the number of rows as they were; on an id the   *)
(* table does not hold it returns {error: not_found} and changes nothing.  *)
(***************************************************************************)
RECURSIVE Total(_)
Total(items) ==
    IF items = <<>> THEN 0
    ELSE Total(SubSeq(items, 1, Len(items) - 1))
            + items[Len(items)].qty * items[Len(items)].price

ItemsUpdated(old, new, items) ==
    /\ DOMAIN new = DOMAIN old \cup {"items", "total_price"}
    /\ new.items = items
    /\ new.total_price = Total(items)
    /\ \A k \in DOMAIN old \ {"items", "total_price"} : new[k] = old[k]

C12_UpdateOrderItems ==
    [][Calls("update_order_items") =>
          LET id == call'.args.order_id
              items == call'.args.items
          IN  /\ call'.exc = ""
              /\ IF RowsWithId(orders, id) = {}
                 THEN /\ call'.result = [error |-> "not_found"]
                      /\ orders' = orders
                 ELSE /\ Len(orders') = Len(orders)
                      /\ \A i \in DOMAIN orders :
                            IF orders[i].order_id = id
                            THEN ItemsUpdated(orders[i], orders'[i], items)
                            ELSE orders'[i] = orders[i]
                      /\ Has(call'.result, "order")
                      /\ call'.result.order.order_id = id
                      /\ call'.result.order.items = items
                      /\ call'.result.order.total_price = Total(items)]_vars

\* order 1002 got two items, 1 x 450 and 2 x 80, and the total 610
C12_ItemsAndTotalSet ==
    /\ call.name = "update_order_items"
    /\ call.args.order_id = "1002"
    /\ Len(call.args.items) = 2
    /\ \E i \in DOMAIN orders :
          /\ orders[i].order_id = "1002"
          /\ orders[i].items = call.args.items
          /\ orders[i].total_price = 610
          /\ orders[i].customer = "Sara Youssef"

(***************************************************************************)
(* C13.  delete_order on an id no row has returns false and leaves the     *)
(* table as it is; on an id some row has it returns true and the table     *)
(* afterwards is the table before without exactly one row, a row with      *)
(* that id.                                                                *)
(***************************************************************************)
C13_DeleteRemovesExactlyOne ==
    [][Calls("delete_order") =>
          LET id == call'.args.order_id
          IN  IF RowsWithId(orders, id) = {}
              THEN /\ call'.result = [deleted |-> FALSE]
                   /\ orders' = orders
              ELSE /\ call'.result = [deleted |-> TRUE]
                   /\ \E i \in RowsWithId(orders, id) :
                         orders' = Without(orders, i)]_vars

(***************************************************************************)
(* C14.  A search_orders call that returns leaves the table as it is and   *)
(* returns, in table order, exactly the rows on which every clause of the  *)
(* filter list holds: all rows for the empty list, and for the one clause  *)
(* status == v the rows whose status is v.                                 *)
(***************************************************************************)
C14_SearchIsConjunction ==
    [][(Calls("search_orders") /\ call'.exc = "") =>
          LET filters == call'.args.filters
              found == call'.result.results
          IN  /\ orders' = orders
              /\ found = SelectSeq(orders, LAMBDA r :
                            \A k \in DOMAIN filters : Test(r, filters[k]) = "True")
              /\ filters = <<>> => found = orders
              /\ (/\ Len(filters) = 1
                  /\ filters[1].field = "status"
                  /\ filters[1].op = "=="
                  /\ Has(filters[1].value, "str")) =>
                     found = SelectSeq(orders, LAMBDA r :
                                Has(r, "status") /\ r.status = filters[1].value.str)]_vars

\* two clauses, the first holding on a row the second excludes: the search
\* returned only the row both hold on
C14_TwoClausesNarrow ==
    /\ call.name = "search_orders"
    /\ call.exc = ""
    /\ Len(call.args.filters) = 2
    /\ Len(call.result.results) = 1
    /\ \E i \in DOMAIN orders :
          /\ Test(orders[i], call.args.filters[1]) = "True"
          /\ Test(orders[i], call.args.filters[2]) = "False"

(***************************************************************************)
(* C15.  No search_orders call whose clauses use > or < ends with an       *)
(* exception.                                                              *)
(***************************************************************************)
C15_OrderingNeverRaises ==
    (/\ call.name = "search_orders"
     /\ \A k \in DOMAIN call.args.filters :
           call.args.filters[k].op \in {"==", "!=", ">", "<", "~"})
        => call.exc = ""

(***************************************************************************)
(* C16.  A save by a turn never stores a history shorter than the one      *)
(* stored before it.                                                       *)
(***************************************************************************)
C16_TurnSaveNeverShrinks ==
    [][\A t \in TurnIds : TurnSaves(t) => Len(Stored') >= Len(Stored)]_vars

(***************************************************************************)
(* C17.  After a save by trim_history, the number of messages after the    *)
(* newest summary message is window.                                       *)
(***************************************************************************)
C17_WindowRemainsUnsummarized ==
    [][\A t \in TurnIds :
          TrimSaves(t) => Len(AfterAnchor(Stored')) = window]_vars

(***************************************************************************)
(* C18.  Every history a turn or a compaction saves is non-empty and       *)
(* starts with a system message, whatever the session held at start-up.    *)
(***************************************************************************)
C18_SavedHistoryStartsWithSystem ==
    [][\A t \in TurnIds :
          (TurnSaves(t) \/ TrimSaves(t)) =>
              /\ Stored' # <<>>
              /\ Stored'[1].role = "system"]_vars

\* a history that had no system message was saved by a turn and compacted:
\* the system message leads it, the old messages are in the summary
C18_LegacyHistoryCompacted ==
    /\ trimlog.outcome = "saved"
    /\ Stored[1].role = "system"
    /\ Has(Stored[2], "meta")
    /\ Stored[2].meta.summary_of[1] = UserMsg("legacy message")

(***************************************************************************)
(* C19.  For every list the program holds, and for the same list without   *)
(* its first message: _ensure_system applied twice gives what it gives     *)
(* applied once, and a list that starts with a system message comes back   *)
(* as it is.                                                               *)
(***************************************************************************)
EnsureInputs ==
    UNION { {heap[o], SliceFrom(heap[o], 1)} : o \in ObjIds }

C19_EnsureSystemIdempotent ==
    \A h \in EnsureInputs :
        /\ _ensure_system(_ensure_system(h)) = _ensure_system(h)
        /\ (h # <<>> /\ h[1].role = "system") => _ensure_system(h) = h

\* a turn started on a stored history that has its system message: the
\* turn's list is that history and the user message, nothing was inserted
C19_EnsureLeftHistoryAlone ==
    /\ ~aliasing
    /\ turn[1].pc = "chat1"
    /\ turn[2].pc = "idle"
    /\ rowRef # 0
    /\ Stored[1].role = "system"
    /\ heap[turn[1].h] = Append(Stored, UserMsg(UserText(1)))

(***************************************************************************)
(* C20.  A turn that saves asked for its completions in a fixed order and  *)
(* saves a history with its messages at the end: after the text branch one *)
(* request (auto) and the saved history is the list the turn sent with it  *)
(* plus the assistant message, ending with the turn's user message and     *)
(* that assistant message; after the tool branch two requests (auto, then  *)
(* none) and the saved history ends with the turn's user message, the      *)
(* assistant message with tool calls, the tool message and the assistant   *)
(* message.  The second request is sent in the step that appends the tool  *)
(* message.                                                                *)
(***************************************************************************)
Last(h, k) == h[Len(h) - k]

PlainAssistant(m) == m.role = "assistant" /\ ~Has(m, "tool_calls")

C20_TurnOrder ==
    [][\A t \in TurnIds :
          /\ (turn[t].pc = "chat1" /\ turn'[t].pc = "chat2") =>
                /\ turn'[t].chats = <<"auto", "none">>
                /\ Last(heap'[turn'[t].h], 0).role = "tool"
          /\ TurnSaves(t) =>
                IF turn[t].pc = "chat1"
                THEN /\ turn[t].chats = <<"auto">>
                     /\ Len(Stored') >= 3
                     /\ SubSeq(Stored', 1, Len(Stored') - 1) = heap[turn[t].h]
                     /\ Last(Stored', 1) = UserMsg(UserText(t))
                     /\ PlainAssistant(Last(Stored', 0))
                ELSE /\ turn[t].chats = <<"auto", "none">>
                     /\ Len(Stored') >= 5
                     /\ Last(Stored', 3) = UserMsg(UserText(t))
                     /\ Last(Stored', 2).role = "assistant"
                     /\ Has(Last(Stored', 2), "tool_calls")
                     /\ Last(Stored', 1).role = "tool"
                     /\ PlainAssistant(Last(Stored', 0))]_vars

(***************************************************************************)
(* C21.  When a turn ends with an exception, none of its messages is in    *)
(* the history the session row holds: the user message of the turn is not  *)
(* in what a later load_history returns.                                   *)
(***************************************************************************)
C21_AbortedTurnLeavesNoTrace ==
    [][\A t \in TurnIds :
          TurnAborts(t) => ~Mentions(Stored', UserText(t))]_vars

(***************************************************************************)
(* C22.  With turns one after another, each compaction done before the     *)
(* next turn and every summary succeeding: the stored history has at most  *)
(* 15 messages after its anchor whenever a turn starts, and at most 19 at  *)
(* any time.                                                               *)
(***************************************************************************)
C22_SequentialBound ==
    /\ [](Len(AfterAnchor(Stored)) <= 19)
    /\ [][\A t \in TurnIds :
             (turn[t].pc = "idle" /\ turn'[t].pc = "chat1") =>
                 Len(AfterAnchor(Stored)) <= 15]_vars

(***************************************************************************)
(* C23.  No assistant message in any history has a null content, and no    *)
(* turn ends on a reply that is null.                                      *)
(***************************************************************************)
C23_AssistantTextNeverNull ==
    /\ \A o \in ObjIds : \A i \in DOMAIN heap[o] :
          heap[o][i].role = "assistant" => heap[o][i].content # None
    /\ response # ChatResponse(None)

====
